---- MODULE Spec2Model ----
(***************************************************************************)
(* Model of the backup import of GreenTracker (PlantDaddy):                *)
(* ImportService.importFromZipBuffer and the steps it drives, against a    *)
(* storage collaborator.  One import call is a sequential pass; each       *)
(* action below is one await-delimited piece of it (the prologue, the      *)
(* deletion, one iteration of a restore loop, the preferences step).       *)
(***************************************************************************)
EXTENDS Integers, Sequences, FiniteSets, TLC

\* ------------------------------------------------------------------ bounds
MaxPlants == 2
MaxLocations == 1
MaxWaterings == 1
MaxFaults == 1
\* The calendar days the scheduler is followed through, and the startScheduler
\* calls made.
MaxDays == 2
MaxStarts == 2

\* ---------------------------------------------------------- scheduler clock
\* scheduler.ts lines 5-11, 34 and 84.  The model counts time in minutes, so
\* ONE_MINUTE is the unit.
ONE_HOUR == 60
ONE_DAY == 24 * ONE_HOUR
DEFAULT_CHECK_HOUR == 8
DEFAULT_CHECK_MINUTE == 0
CheckWindow == 5
IntervalMinutes == 15

Days == 0..MaxDays
Horizon == MaxDays * ONE_DAY

\* Date accessors on a clock value; getDateString (lines 17-19) is injective on
\* the calendar day.
getHours(t) == (t % ONE_DAY) \div ONE_HOUR
getMinutes(t) == t % ONE_HOUR
getDateString(t) == t \div ONE_DAY

\* -------------------------------------------------------------- JS values
NULL == "null"
UNDEFINED == "undefined"
InvalidDate == "Invalid Date"

Has(r, k) == k \in DOMAIN r

Restrict(r, keys) == [k \in (DOMAIN r) \cap keys |-> r[k]]

\* String.prototype.toLowerCase on the names the model uses.
ToLower(s) ==
  IF s = "Kitchen" THEN "kitchen" ELSE IF s = "Den" THEN "den"
  ELSE IF s = "Attic" THEN "attic" ELSE s

\* new Date(val) for the date strings the model uses.
NewDate(val) == IF val \in {"2024-01-01", "2024-02-02"} THEN val ELSE InvalidDate

\* JavaScript truthiness of a string-or-null value.
Truthy(val) == val \notin {NULL, UNDEFINED, ""}

\* ------------------------------------------------------- archive contents
PlantKeys ==
  {"id", "name", "species", "location", "wateringFrequency", "lastWatered",
   "notes", "imageUrl", "userId"}

LocationKeys == {"id", "name", "isDefault", "userId"}

WateringKeys == {"id", "plantId", "wateredAt"}

SettingsKeys == {"enabled", "pushoverEnabled", "emailEnabled", "emailAddress", "lastUpdated"}

SettingsRequired == {"enabled", "lastUpdated"}

ExportInfoKeys == {"version", "exportedAt", "username"}

CredentialKeys == {"pushoverAppToken", "pushoverUserKey", "sendgridApiKey"}

RawPlant(id, name) ==
  [id |-> id, name |-> name, species |-> NULL, location |-> "Kitchen",
   wateringFrequency |-> 7, lastWatered |-> "2024-01-01", notes |-> "from backup",
   imageUrl |-> NULL, userId |-> 1]

\* A plant record that lacks the required field `location`.
RawPlantMissingField(id, name) == Restrict(RawPlant(id, name), PlantKeys \ {"location"})

RawPlants == {RawPlant(10, "Fern"), RawPlant(11, "Ivy"), RawPlantMissingField(12, "Moss")}

RawLocations ==
  {[id |-> 1, name |-> "Kitchen", isDefault |-> d, userId |-> 1] : d \in BOOLEAN}

RawWaterings ==
  {[id |-> 100, plantId |-> p, wateredAt |-> "2024-02-02"] : p \in {10, 11}}

RawSettingsPlain ==
  [enabled |-> TRUE, pushoverEnabled |-> TRUE, emailEnabled |-> FALSE,
   emailAddress |-> "me@example.org", lastUpdated |-> "2024-01-01"]

RawSettingsWithSecrets ==
  [enabled |-> TRUE, pushoverEnabled |-> TRUE, emailEnabled |-> FALSE,
   emailAddress |-> "me@example.org", lastUpdated |-> "2024-01-01",
   pushoverAppToken |-> "archive-token", pushoverUserKey |-> "archive-key",
   sendgridApiKey |-> "archive-sg"]

RawSettingsMinimalWithSecret ==
  [enabled |-> FALSE, lastUpdated |-> "2024-01-01", pushoverAppToken |-> "other-token"]

RawSettingsChoices ==
  {<<>>, <<RawSettingsPlain>>, <<RawSettingsWithSecrets>>, <<RawSettingsMinimalWithSecret>>}

GoodExportInfo == [version |-> "1.0", exportedAt |-> "2024-03-03", username |-> "ann"]

\* exportInfo lacking exportedAt and username.
BadExportInfo == [version |-> "1.0"]

SeqsUpTo(S, n) == UNION {[1..k -> S] : k \in 0..n}

\* The parsed backup.json documents the model imports.  notificationSettings is
\* a sequence of length 0 (key absent) or 1.
Manifests ==
  [exportInfo : {GoodExportInfo, BadExportInfo},
   plants : SeqsUpTo(RawPlants, MaxPlants),
   locations : SeqsUpTo(RawLocations, MaxLocations),
   wateringHistory : SeqsUpTo(RawWaterings, MaxWaterings),
   notificationSettings : RawSettingsChoices]

NoManifest ==
  [exportInfo |-> BadExportInfo, plants |-> <<>>, locations |-> <<>>,
   wateringHistory |-> <<>>, notificationSettings |-> <<>>]

\* A ZIP buffer: a container that cannot be opened, one without backup.json,
\* one whose backup.json is not JSON, or one holding a manifest.
\* images is the set of file names under images/ in the container.
ZipBuffers ==
  {[container |-> c, backupData |-> NoManifest, images |-> {}] :
      c \in {"corrupt", "no-backup-json", "not-json"}}
    \cup {[container |-> "ok", backupData |-> m, images |-> {}] : m \in Manifests}

\* The file name `plant-<id>-<rest>` of an exported image.
ImageName(plantId, rest) == [plant |-> plantId, rest |-> rest]

\* Archives whose records differ in the fields the import interprets: the
\* lastWatered of a plant (a date, null, empty, not a date), its image, and
\* the wateredAt of a watering event.
DatedPlant(lastWatered) == [RawPlant(10, "Fern") EXCEPT !.lastWatered = lastWatered]

\* A plant exported with its image, stored as images/plant-10-photo.jpg.
PictureName == ImageName(10, "photo.jpg")

PicturedPlant == [RawPlant(10, "Fern") EXCEPT !.imageUrl = "/uploads/10.jpg"]

DetailPlants ==
  {DatedPlant(lw) : lw \in {"2024-01-01", NULL, "", "not-a-date"}} \cup {PicturedPlant}

DetailWaterings ==
  {[id |-> 100, plantId |-> 10, wateredAt |-> w] : w \in {"2024-02-02", "not-a-date"}}

DetailManifests ==
  [exportInfo : {GoodExportInfo},
   plants : SeqsUpTo(DetailPlants, MaxPlants),
   locations : {<<[id |-> 1, name |-> "Kitchen", isDefault |-> FALSE, userId |-> 1]>>},
   wateringHistory : SeqsUpTo(DetailWaterings, MaxWaterings),
   notificationSettings : {<<RawSettingsPlain>>}]

DetailZipBuffers ==
  {[container |-> "ok", backupData |-> m, images |-> i] :
      m \in DetailManifests, i \in {{}, {PictureName}}}

\* Archives whose records differ in the places they name: location records
\* in other letter case or named like a live default location, two plant
\* records with different ids and equal name, species and location, and a
\* plant in a location the archive does not hold.
PlaceLocation(name, isDefault) ==
  [id |-> 1, name |-> name, isDefault |-> isDefault, userId |-> 1]

PlaceLocations ==
  {PlaceLocation("kitchen", FALSE), PlaceLocation("den", FALSE),
   PlaceLocation("Kitchen", TRUE)}

PlacePlant(id, name, location) == [RawPlant(id, name) EXCEPT !.location = location]

PlacePlants ==
  {PlacePlant(10, "Fern", "Kitchen"), PlacePlant(11, "Fern", "Kitchen"),
   PlacePlant(12, "Palm", "Attic")}

PlaceManifests ==
  [exportInfo : {GoodExportInfo},
   plants : SeqsUpTo(PlacePlants, MaxPlants),
   locations : SeqsUpTo(PlaceLocations, MaxLocations),
   wateringHistory : SeqsUpTo(RawWaterings, MaxWaterings),
   notificationSettings : {<<>>}]

PlaceZipBuffers ==
  {[container |-> "ok", backupData |-> m, images |-> {}] : m \in PlaceManifests}

\* The archives two interleaved import calls are given: one plant each, with
\* or without a watering event of the archive plant 10.
InterleavedManifests ==
  [exportInfo : {GoodExportInfo},
   plants : {<<RawPlant(10, "Fern")>>, <<RawPlant(11, "Ivy")>>},
   locations : {<<>>},
   wateringHistory : {<<>>, <<[id |-> 100, plantId |-> 10, wateredAt |-> "2024-02-02"]>>},
   notificationSettings : {<<>>}]

InterleavedZipBuffers ==
  {[container |-> "ok", backupData |-> m, images |-> {}] : m \in InterleavedManifests}

Modes == {"merge", "replace"}

\* ------------------------------------------------------ schema validation
HasAll(r, keys) == keys \subseteq DOMAIN r

\* z.object strips keys the schema does not name; transforms run on success.
BackupPlantSchemaOk(r) == HasAll(r, PlantKeys)

BackupPlantSchemaParse(r) ==
  [k \in PlantKeys |->
     IF k = "lastWatered"
       THEN (IF Truthy(r[k]) THEN NewDate(r[k]) ELSE UNDEFINED)
       ELSE r[k]]

BackupLocationSchemaOk(r) == HasAll(r, LocationKeys)

BackupLocationSchemaParse(r) == Restrict(r, LocationKeys)

BackupWateringHistorySchemaOk(r) == HasAll(r, WateringKeys)

BackupWateringHistorySchemaParse(r) ==
  [k \in WateringKeys |-> IF k = "wateredAt" THEN NewDate(r[k]) ELSE r[k]]

BackupNotificationSettingsSchemaOk(r) == HasAll(r, SettingsRequired)

BackupNotificationSettingsSchemaParse(r) ==
  [k \in (DOMAIN r) \cap SettingsKeys |->
     IF k = "lastUpdated" THEN NewDate(r[k]) ELSE r[k]]

\* Faulty variant: exportInfo is not validated.
BackupExportInfoSchemaLax(r) == TRUE

BackupExportInfoSchemaOk(r) == HasAll(r, ExportInfoKeys)

BackupExportInfoSchemaParse(r) ==
  [k \in ExportInfoKeys |-> IF k = "exportedAt" THEN NewDate(r[k]) ELSE r[k]]

\* BackupDataSchema.parse throws unless every part validates: one invalid
\* element of an array fails the whole document.
BackupDataSchemaOk(d) ==
  /\ BackupExportInfoSchemaOk(d.exportInfo)
  /\ \A i \in DOMAIN d.plants : BackupPlantSchemaOk(d.plants[i])
  /\ \A i \in DOMAIN d.locations : BackupLocationSchemaOk(d.locations[i])
  /\ \A i \in DOMAIN d.wateringHistory : BackupWateringHistorySchemaOk(d.wateringHistory[i])
  /\ \A i \in DOMAIN d.notificationSettings :
        BackupNotificationSettingsSchemaOk(d.notificationSettings[i])

BackupDataSchemaParse(d) ==
  [exportInfo |-> BackupExportInfoSchemaParse(d.exportInfo),
   plants |-> [i \in DOMAIN d.plants |-> BackupPlantSchemaParse(d.plants[i])],
   locations |-> [i \in DOMAIN d.locations |-> BackupLocationSchemaParse(d.locations[i])],
   wateringHistory |->
     [i \in DOMAIN d.wateringHistory |-> BackupWateringHistorySchemaParse(d.wateringHistory[i])],
   notificationSettings |->
     [i \in DOMAIN d.notificationSettings |->
        BackupNotificationSettingsSchemaParse(d.notificationSettings[i])]]

\* extractZipContents: loadAsync throws on an unreadable container, a missing
\* backup.json throws, JSON.parse throws on text that is not JSON.
extractZipContentsOk(zip) == zip.container = "ok"

\* Lines 169-180: every file under images/ is kept under its bare name.
extractZipContents(zip) == [backupData |-> zip.backupData, imageFiles |-> zip.images]

\* ----------------------------------------------------------------- storage
\* The live dataset of the current user and the serial id counters.
Merge(base, update) ==
  [k \in (DOMAIN base) \cup (DOMAIN update) |->
     IF k \in DOMAIN update THEN update[k] ELSE base[k]]

MinId(S) == CHOOSE x \in S : \A y \in S : x.id <= y.id

OrNull(val) == IF Truthy(val) THEN val ELSE NULL

getAllLocations(d) == d.locations

\* Match by case-insensitive name among the user's locations; reuse the match,
\* else insert a new row.
upsertLocationByName(d, name, isDefault) ==
  LET matches == {l \in d.locations : ToLower(l.name) = ToLower(name)}
      created == [id |-> d.serial.locations, name |-> name, isDefault |-> isDefault]
  IN IF matches # {}
       THEN [db |-> d, ret |-> MinId(matches)]
       ELSE [db |-> [d EXCEPT !.locations = @ \cup {created},
                              !.serial.locations = @ + 1],
             ret |-> created]

\* Composite, case-insensitive equality on name + species + location; the
\* first match in id order, as a sequence of length 0 or 1.
findPlantByDetails(d, name, species, location) ==
  LET matches == {p \in d.plants :
                    /\ ToLower(p.name) = ToLower(name)
                    /\ ToLower(p.species) = ToLower(species)
                    /\ ToLower(p.location) = ToLower(location)}
  IN IF matches = {} THEN <<>> ELSE <<MinId(matches)>>

\* Faulty variant: the id counter is not advanced.
createPlantStaleId(d, insertPlant) ==
  LET plant == Merge(insertPlant,
                     [id |-> d.serial.plants,
                      species |-> OrNull(insertPlant.species),
                      notes |-> OrNull(insertPlant.notes)])
  IN [db |-> [d EXCEPT !.plants = @ \cup {plant}], ret |-> plant]

createPlant(d, insertPlant) ==
  LET plant == Merge(insertPlant,
                     [id |-> d.serial.plants,
                      species |-> OrNull(insertPlant.species),
                      notes |-> OrNull(insertPlant.notes)])
  IN [db |-> [d EXCEPT !.plants = @ \cup {plant}, !.serial.plants = @ + 1],
      ret |-> plant]

\* Returns the updated plant as a sequence of length 1, or <<>> (undefined)
\* when no plant has that id.
updatePlant(d, id, plantUpdate) ==
  LET found == {p \in d.plants : p.id = id}
  IN IF found = {}
       THEN [db |-> d, ret |-> <<>>]
       ELSE LET existingPlant == CHOOSE p \in found : TRUE
                updatedPlant == Merge(existingPlant, plantUpdate)
            IN [db |-> [d EXCEPT !.plants = (@ \ {existingPlant}) \cup {updatedPlant}],
                ret |-> <<updatedPlant>>]

createWateringHistory(d, wateringData) ==
  LET entry == [id |-> d.serial.wateringHistory,
                plantId |-> wateringData.plantId,
                wateredAt |-> wateringData.wateredAt]
  IN [db |-> [d EXCEPT !.wateringHistory = @ \cup {entry},
                         !.serial.wateringHistory = @ + 1],
      ret |-> entry]

\* Writes the defined fields of the partial settings over the stored ones.
updateNotificationSettings(d, partial) ==
  LET defined == {k \in DOMAIN partial : k # "emailAddress" \/ partial[k] # UNDEFINED}
  IN [db |-> [d EXCEPT !.notificationSettings = Merge(@, Restrict(partial, defined))],
      ret |-> Merge(d.notificationSettings, Restrict(partial, defined))]

\* Deletes the user's watering events, then plants, then locations.
deleteAllUserData(d) ==
  [d EXCEPT !.wateringHistory = {}, !.plants = {}, !.locations = {}]

\* deleteAllUserData that threw after the children (watering events) were deleted.
deleteAllUserDataInterrupted(d) == [d EXCEPT !.wateringHistory = {}]

LiveSettings ==
  [enabled |-> FALSE, pushoverEnabled |-> FALSE, emailEnabled |-> TRUE,
   emailAddress |-> "live@example.org", pushoverAppToken |-> "live-token",
   pushoverUserKey |-> "live-key", sendgridApiKey |-> "live-sg"]

EmptyAccount ==
  [locations |-> {}, plants |-> {}, wateringHistory |-> {},
   notificationSettings |-> LiveSettings,
   serial |-> [locations |-> 1, plants |-> 1, wateringHistory |-> 1]]

\* An account with a default and a user-created location, one plant that the
\* archive's "Fern" matches, and one watering event of it.
SeededAccount ==
  [locations |-> {[id |-> 1, name |-> "Den", isDefault |-> TRUE],
                  [id |-> 2, name |-> "Kitchen", isDefault |-> FALSE]},
   plants |-> {[id |-> 1, name |-> "Fern", species |-> NULL, location |-> "Kitchen",
                wateringFrequency |-> 3, lastWatered |-> "2023-12-31", notes |-> "old",
                imageUrl |-> NULL, userId |-> 1]},
   wateringHistory |-> {[id |-> 1, plantId |-> 1, wateredAt |-> "2024-01-01"]},
   notificationSettings |-> LiveSettings,
   serial |-> [locations |-> 3, plants |-> 2, wateringHistory |-> 2]]

\* ---------------------------------------------------------- ImportService
VARIABLES
  db,              \* the storage collaborator's data for the current user
  pc,              \* position of the import call
  idx,             \* index of the record the current restore loop is at
  zipBuffer,       \* argument of the call
  mode,            \* argument of the call
  plantIdMapping,  \* archive-local plant id -> live plant id
  summary,         \* the ImportSummary being accumulated
  calls,           \* storage calls made by the current import call
  settingsArgs,    \* arguments passed to updateNotificationSettings by the call
  faults,          \* storage failures injected so far
  rerun,           \* TRUE while the same archive is imported a second time
  before,          \* the live dataset when the current call started
  firstSummary,    \* the summary the first call returned
  other,           \* the locals of a second import call, suspended at an await
  awaited,         \* result of the awaited findPlantByDetails, when it is awaited apart
  overlapped,      \* TRUE once a call was suspended in the middle of its import
  clock,           \* scheduler: the wall clock, in minutes since midnight of day 0
  lastCheckDate,   \* scheduler: <<>> for null, else <<day>> of the last completed check
  schedulerInterval, \* scheduler: <<>> for null, else <<minute at which the timer fires next>>
  timers,          \* scheduler: the number of interval timers that are active
  starts,          \* scheduler: the number of startScheduler calls made
  startDay,        \* scheduler: <<day>> of the first startScheduler call
  inFlight,        \* scheduler: checkPlantsTask invocations suspended inside the try block
  accepted,        \* scheduler: the days on which an invocation passed both guards
  sends,           \* scheduler: per day, the number of runs that sent their notifications
  taskFailed       \* scheduler: TRUE once storage or the sender threw in an invocation

\* The variables of two import calls that run interleaved.
interleaving == <<other, awaited, overlapped>>

\* The variables of the notification scheduler (src/server/scheduler.ts).
scheduling ==
  <<clock, lastCheckDate, schedulerInterval, timers, starts, startDay, inFlight,
    accepted, sends, taskFailed>>

\* The variables of the import.
importing ==
  <<db, pc, idx, zipBuffer, mode, plantIdMapping, summary, calls, settingsArgs,
    faults, rerun, before, firstSummary, other, awaited, overlapped>>

vars ==
  <<db, pc, idx, zipBuffer, mode, plantIdMapping, summary, calls, settingsArgs,
    faults, rerun, before, firstSummary, other, awaited, overlapped,
    clock, lastCheckDate, schedulerInterval, timers, starts, startDay, inFlight,
    accepted, sends, taskFailed>>

Now == "now"

NewSummary(m) ==
  [mode |-> m, plantsCreated |-> 0, plantsUpdated |-> 0, plantsSkipped |-> 0,
   locationsCreated |-> 0, wateringHistoryCreated |-> 0, imagesRestored |-> 0,
   notificationSettingsUpdated |-> FALSE, warnings |-> <<>>]

NoZip == [container |-> "none", backupData |-> NoManifest, images |-> {}]

EmptyMapping == [k \in {} |-> 0]

Warn(s, text) == [s EXCEPT !.warnings = Append(@, text)]

Call(op, ok, id) == [op |-> op, ok |-> ok, id |-> id]

\* A storage call made for the archive plant record with id `archiveId`.
PlantCall(op, ok, id, archiveId) ==
  [op |-> op, ok |-> ok, id |-> id, archiveId |-> archiveId]

\* Map.prototype.get: 0 stands for undefined.
MapGet(map, key) == IF key \in DOMAIN map THEN map[key] ELSE 0

\* Faulty variant: the entry is not recorded.
MapSetDropped(map, key, value) == map

MapSet(map, key, value) ==
  [k \in (DOMAIN map) \cup {key} |-> IF k = key THEN value ELSE map[k]]

\* Faulty variant: a missing map entry is not detected.
NeverFalsyId(v) == FALSE

\* `!newPlantId`: undefined and 0 are both falsy.
IsFalsyId(v) == v = 0

\* The catch blocks: what each does with the summary, and whether it rethrows.
importCatch(s) == [rethrow |-> TRUE, summary |-> Warn(s, "Import failed")]

\* Faulty variant: a location failure is rethrown.
restoreLocationsRethrow(s) == [rethrow |-> TRUE, summary |-> s]

restoreLocationsCatch(s) ==
  [rethrow |-> FALSE, summary |-> Warn(s, "Failed to restore location")]

\* Faulty variant: a plant failure is rethrown.
restorePlantsRethrow(s) == [rethrow |-> TRUE, summary |-> s]

\* Faulty variant: the failed plant record is warned about but not counted.
restorePlantsCatchUncounted(s) ==
  [rethrow |-> FALSE, summary |-> Warn(s, "Failed to restore plant")]

restorePlantsCatch(s) ==
  [rethrow |-> FALSE,
   summary |-> [Warn(s, "Failed to restore plant") EXCEPT !.plantsSkipped = @ + 1]]

\* Faulty variant: the failed watering event is counted as created.
restoreWateringHistoryCatchCounted(s) ==
  [rethrow |-> FALSE,
   summary |-> [Warn(s, "Failed to restore watering history entry")
                  EXCEPT !.wateringHistoryCreated = @ + 1]]

restoreWateringHistoryCatch(s) ==
  [rethrow |-> FALSE, summary |-> Warn(s, "Failed to restore watering history entry")]

\* Faulty variant: a preferences failure is rethrown.
restoreNotificationSettingsRethrow(s) == [rethrow |-> TRUE, summary |-> s]

restoreNotificationSettingsCatch(s) ==
  [rethrow |-> FALSE, summary |-> Warn(s, "Failed to restore notification settings")]

\* Faulty variant: replace mode does not delete.
DeletesNever(m) == FALSE

\* Faulty variant: the live data is deleted in merge mode too.
DeletesAlways(m) == TRUE

\* Faulty variant: the mode test is inverted.
DeletesInMerge(m) == m = "merge"

\* Is deleteAllUserData called before restoring?
DeletesFirst(m) == m = "replace"

\* The validated document of a ZIP buffer that passed extraction and validation.
Validated(zip) == BackupDataSchemaParse(extractZipContents(zip).backupData)

\* Faulty variant: plants are restored before the locations.
StepOrderPlantsFirst == <<"plants", "locations", "watering", "settings">>

\* Dependency order of the restore steps, and the position that follows
\* record i of step p: the next record, else the first record of the next
\* non-empty step, else the return.
StepOrder == <<"locations", "plants", "watering", "settings">>

StepRecords(data, p) ==
  CASE p = "locations" -> data.locations
    [] p = "plants" -> data.plants
    [] p = "watering" -> data.wateringHistory
    [] p = "settings" -> data.notificationSettings

StepIndex(p) == CHOOSE k \in DOMAIN StepOrder : StepOrder[k] = p

RECURSIVE EnterStep(_, _)
EnterStep(data, k) ==
  IF k > Len(StepOrder) THEN [pc |-> "returned", idx |-> 0]
  ELSE IF Len(StepRecords(data, StepOrder[k])) > 0 THEN [pc |-> StepOrder[k], idx |-> 1]
  ELSE EnterStep(data, k + 1)

After(data, p, i) ==
  IF i < Len(StepRecords(data, p)) THEN [pc |-> p, idx |-> i + 1]
  ELSE EnterStep(data, StepIndex(p) + 1)

\* ------------------------------------------------- one record of each step
\* Each operator gives the effect of one loop iteration: `out` names the
\* storage call that throws in it ("ok": none does).
StepResult(d, s, map, rethrow, cs) ==
  [db |-> d, summary |-> s, map |-> map, rethrow |-> rethrow, calls |-> cs]

Caught(d, c, map, cs) == StepResult(d, c.summary, map, c.rethrow, cs)

\* restoreLocations, lines 191-211.  The locationMapping it fills is never read.
restoreLocation(d, s, map, loc, out) ==
  IF loc.isDefault THEN StepResult(d, s, map, FALSE, <<>>)
  ELSE IF out = "getAllLocations"
    THEN Caught(d, restoreLocationsCatch(s), map, <<Call("getAllLocations", FALSE, 0)>>)
  ELSE
    LET existingLocations == getAllLocations(d)
        locationExists ==
          \E existing \in existingLocations :
            ToLower(existing.name) = ToLower(loc.name) /\ ~existing.isDefault
        read == <<Call("getAllLocations", TRUE, 0)>>
    IN IF out = "upsertLocationByName"
         THEN Caught(d, restoreLocationsCatch(s), map,
                     read \o <<Call("upsertLocationByName", FALSE, 0)>>)
         ELSE LET u == upsertLocationByName(d, loc.name, FALSE)
              IN StepResult(u.db,
                            IF ~locationExists
                              THEN [s EXCEPT !.locationsCreated = @ + 1] ELSE s,
                            map, FALSE,
                            read \o <<Call("upsertLocationByName", TRUE, u.ret.id)>>)

\* filename.startsWith(`plant-${oldPlantId}-`), line 304.
StartsWithImagePattern(filename, oldPlantId) == filename.plant = oldPlantId

\* restorePlantImage, lines 292-330: false when no file matches the pattern;
\* the upload of a matched file is not implemented and false is returned too.
restorePlantImage(oldPlantId, newPlantId, imageFiles) ==
  LET matched == {f \in imageFiles : StartsWithImagePattern(f, oldPlantId)}
  IN IF matched = {} THEN FALSE ELSE FALSE

\* Faulty variant: the whole archive record is written over the live plant.
UpdateDataWhole(plant) == plant

\* updateData of a matched plant, lines 235-243.
UpdateData(plant) ==
  LET base == [wateringFrequency |-> plant.wateringFrequency, notes |-> plant.notes]
  IN IF plant.lastWatered # UNDEFINED
       THEN Merge(base, [lastWatered |-> plant.lastWatered]) ELSE base

\* Faulty variant: the location of the record is not copied to the new plant.
PlantDataLocationLost(plant) ==
  [name |-> plant.name, species |-> plant.species, location |-> NULL,
   wateringFrequency |-> plant.wateringFrequency,
   lastWatered |-> IF plant.lastWatered # UNDEFINED THEN plant.lastWatered ELSE Now,
   notes |-> plant.notes, imageUrl |-> NULL, userId |-> 0]

\* plantData of a new plant, lines 256-265.
PlantData(plant) ==
  [name |-> plant.name, species |-> plant.species, location |-> plant.location,
   wateringFrequency |-> plant.wateringFrequency,
   lastWatered |-> IF plant.lastWatered # UNDEFINED THEN plant.lastWatered ELSE Now,
   notes |-> plant.notes, imageUrl |-> NULL, userId |-> 0]

\* Faulty variant: the archive-local id is recorded as the live id.
MappedArchiveId(plant, livePlant) == plant.id

\* The live id recorded for an archive plant, lines 248 and 268.
MappedId(plant, livePlant) == livePlant.id

\* restorePlants, lines 223-290, from the point where findPlantByDetails has
\* returned existingPlant (a sequence of length 0 or 1; <<>> in replace mode).
restorePlantAfterLookup(d, s, map, m, imageFiles, plant, out, existingPlant) ==
  LET found == Len(existingPlant) > 0
      lookup ==
        IF m = "merge"
          THEN <<PlantCall("findPlantByDetails", TRUE, IF found THEN existingPlant[1].id ELSE 0, plant.id)>>
          ELSE <<>>
  IN IF m = "merge" /\ out = "findPlantByDetails"
       THEN Caught(d, restorePlantsCatch(s), map, <<PlantCall("findPlantByDetails", FALSE, 0, plant.id)>>)
     ELSE IF found
       THEN IF out = "updatePlant"
              THEN Caught(d, restorePlantsCatch(s), map,
                          lookup \o <<PlantCall("updatePlant", FALSE, existingPlant[1].id, plant.id)>>)
            ELSE IF out = "updatePlant-undefined"
              THEN StepResult(d, s, map, FALSE, lookup \o <<PlantCall("updatePlant", TRUE, 0, plant.id)>>)
            ELSE
              LET u == updatePlant(d, existingPlant[1].id, UpdateData(plant))
              IN IF Len(u.ret) > 0
                   THEN StepResult(u.db, [s EXCEPT !.plantsUpdated = @ + 1],
                                   MapSet(map, plant.id, MappedId(plant, u.ret[1])), FALSE,
                                   lookup \o <<PlantCall("updatePlant", TRUE, u.ret[1].id, plant.id)>>)
                   ELSE StepResult(d, s, map, FALSE,
                                   lookup \o <<PlantCall("updatePlant", TRUE, 0, plant.id)>>)
     ELSE IF out = "createPlant"
       THEN Caught(d, restorePlantsCatch(s), map, lookup \o <<PlantCall("createPlant", FALSE, 0, plant.id)>>)
     ELSE
       LET c == createPlant(d, PlantData(plant))
           imageRestored ==
             /\ Truthy(plant.imageUrl)
             /\ imageFiles # {}
             /\ restorePlantImage(plant.id, c.ret.id, imageFiles)
       IN StepResult(c.db,
                     [s EXCEPT !.imagesRestored = IF imageRestored THEN @ + 1 ELSE @,
                               !.plantsCreated = @ + 1],
                     MapSet(map, plant.id, MappedId(plant, c.ret)), FALSE,
                     lookup \o <<PlantCall("createPlant", TRUE, c.ret.id, plant.id)>>)

\* restorePlants, lines 223-290.
restorePlant(d, s, map, m, imageFiles, plant, out) ==
  restorePlantAfterLookup(d, s, map, m, imageFiles, plant, out,
    IF m = "merge"
      THEN findPlantByDetails(d, plant.name, plant.species, plant.location)
      ELSE <<>>)

\* Faulty variant: the event keeps the archive-local plant id.
WateringDataArchiveId(entry, newPlantId) ==
  [plantId |-> entry.plantId, wateredAt |-> entry.wateredAt, userId |-> 0]

\* wateringData, lines 345-349.
WateringData(entry, newPlantId) ==
  [plantId |-> newPlantId, wateredAt |-> entry.wateredAt, userId |-> 0]

\* restoreWateringHistory, lines 337-357.
restoreWateringEntry(d, s, map, entry, out) ==
  LET newPlantId == MapGet(map, entry.plantId)
  IN IF IsFalsyId(newPlantId)
       THEN StepResult(d, Warn(s, "Skipping watering history entry"), map, FALSE, <<>>)
     ELSE IF out = "createWateringHistory"
       THEN Caught(d, restoreWateringHistoryCatch(s), map,
                   <<Call("createWateringHistory", FALSE, newPlantId)>>)
     ELSE
       LET c == createWateringHistory(d, WateringData(entry, newPlantId))
       IN StepResult(c.db, [s EXCEPT !.wateringHistoryCreated = @ + 1], map, FALSE,
                     <<Call("createWateringHistory", TRUE, newPlantId)>>)

\* Faulty variant: the validated settings object is passed on whole.
SpreadSettings(settings) == settings

\* safeSettings, lines 366-372: `x || false` of an optional boolean.
SafeSettings(settings) ==
  [enabled |-> settings.enabled,
   pushoverEnabled |-> Has(settings, "pushoverEnabled") /\ settings.pushoverEnabled,
   emailEnabled |-> Has(settings, "emailEnabled") /\ settings.emailEnabled,
   emailAddress |->
     IF Has(settings, "emailAddress") THEN settings.emailAddress ELSE UNDEFINED]

\* restoreNotificationSettings, lines 360-379.
restoreNotificationSettings(d, s, map, settings, out) ==
  IF out = "updateNotificationSettings"
    THEN Caught(d, restoreNotificationSettingsCatch(s), map,
                <<Call("updateNotificationSettings", FALSE, 0)>>)
    ELSE LET u == updateNotificationSettings(d, SafeSettings(settings))
         IN StepResult(u.db, [s EXCEPT !.notificationSettingsUpdated = TRUE], map, FALSE,
                       <<Call("updateNotificationSettings", TRUE, 0)>>)

\* The locals of an import call that has not started.
NoCall ==
  [pc |-> "idle", idx |-> 0, zipBuffer |-> NoZip, mode |-> "merge",
   plantIdMapping |-> EmptyMapping, summary |-> NewSummary("merge"), calls |-> <<>>,
   awaited |-> <<>>]

\* No findPlantByDetails result is awaited: a sequence of length 0; an awaited
\* result is a sequence of length 1 holding what the call returned.
NoLookup == <<>>

\* ----------------------------------------------------------------- actions
\* scheduler.ts lines 13-14: the module state when the module is loaded; no
\* invocation is in flight and nothing was sent.
SchedulerLoaded ==
  /\ lastCheckDate = <<>>
  /\ schedulerInterval = <<>>
  /\ timers = 0
  /\ starts = 0
  /\ startDay = <<>>
  /\ inFlight = 0
  /\ accepted = {}
  /\ sends = [d \in Days |-> 0]
  /\ taskFailed = FALSE

\* No import call was made yet.
ImportIdle ==
  /\ pc = "idle"
  /\ idx = 0
  /\ zipBuffer = NoZip
  /\ mode = "merge"
  /\ plantIdMapping = EmptyMapping
  /\ summary = NewSummary("merge")
  /\ calls = <<>>
  /\ settingsArgs = {}
  /\ faults = 0
  /\ rerun = FALSE
  /\ before = db
  /\ firstSummary = NewSummary("merge")
  /\ other = NoCall
  /\ awaited = NoLookup
  /\ overlapped = FALSE

Init ==
  /\ db \in {EmptyAccount, SeededAccount}
  /\ ImportIdle
  /\ clock = 0
  /\ SchedulerLoaded

\* A storage call may throw while the fault budget lasts.  The second import
\* of an archive is followed only where every storage call succeeds.
Throwing(ops) == IF faults < MaxFaults /\ ~rerun THEN ops ELSE {}

CountFault(out) == faults' = IF out = "ok" THEN faults ELSE faults + 1

\* Lines 87-111: extraction and validation, both outside the try block; then
\* the summary and the identifier map are created.
Start(zip, m) ==
  /\ zipBuffer' = zip
  /\ mode' = m
  /\ before' = db
  /\ calls' = <<>>
  /\ settingsArgs' = {}
  /\ plantIdMapping' = EmptyMapping
  /\ idx' = 0
  /\ IF extractZipContentsOk(zip) /\ BackupDataSchemaOk(extractZipContents(zip).backupData)
       THEN pc' = "try" /\ summary' = NewSummary(m)
       ELSE pc' = "thrown" /\ summary' = summary
  /\ UNCHANGED <<db, faults>>
  /\ UNCHANGED scheduling

importFromZipBuffer ==
  /\ pc = "idle"
  /\ \E zip \in ZipBuffers, m \in Modes : Start(zip, m)
  /\ UNCHANGED <<rerun, firstSummary, interleaving>>

\* The same call, on an archive of DetailZipBuffers.
importFromZipBufferDetails ==
  /\ pc = "idle"
  /\ \E zip \in DetailZipBuffers, m \in Modes : Start(zip, m)
  /\ UNCHANGED <<rerun, firstSummary, interleaving>>

\* The same call, on an archive of PlaceZipBuffers.
importFromZipBufferPlaces ==
  /\ pc = "idle"
  /\ \E zip \in PlaceZipBuffers, m \in Modes : Start(zip, m)
  /\ UNCHANGED <<rerun, firstSummary, interleaving>>

\* The user imports the same archive once more after the first import returned.
importAgain ==
  /\ pc = "returned"
  /\ ~rerun
  /\ faults = 0
  /\ rerun' = TRUE
  /\ firstSummary' = summary
  /\ Start(zipBuffer, mode)
  /\ UNCHANGED interleaving

\* Where the call stands after a restore iteration: an error that escaped the
\* per-record catch reaches the catch of lines 142-145.
Land(r, p, i) ==
  IF r.rethrow
    THEN LET c == importCatch(r.summary)
         IN [pc |-> IF c.rethrow THEN "thrown" ELSE "returned", idx |-> 0,
             summary |-> c.summary]
    ELSE LET pos == After(Validated(zipBuffer), p, i)
         IN [pc |-> pos.pc, idx |-> pos.idx, summary |-> r.summary]

Apply(r, p, out) ==
  LET l == Land(r, p, idx)
  IN /\ db' = r.db
     /\ plantIdMapping' = r.map
     /\ calls' = calls \o r.calls
     /\ pc' = l.pc
     /\ idx' = l.idx
     /\ summary' = l.summary
     /\ CountFault(out)
     /\ UNCHANGED <<zipBuffer, mode, rerun, before, firstSummary>>
     /\ UNCHANGED scheduling

\* Lines 113-117: the deletion of replace mode, inside the try block.
deleteStep ==
  /\ pc = "try"
  /\ \E out \in {"ok"} \cup
                (IF DeletesFirst(mode)
                   THEN Throwing({"deleteAllUserData", "deleteAllUserData-interrupted"})
                   ELSE {}) :
       LET d == IF ~DeletesFirst(mode) \/ out = "deleteAllUserData" THEN db
                ELSE IF out = "ok" THEN deleteAllUserData(db)
                ELSE deleteAllUserDataInterrupted(db)
           cs == IF DeletesFirst(mode)
                   THEN <<Call("deleteAllUserData", out = "ok", 0)>> ELSE <<>>
           first == EnterStep(Validated(zipBuffer), 1)
           c == importCatch(summary)
       IN /\ db' = d
          /\ calls' = calls \o cs
          /\ IF out = "ok"
               THEN pc' = first.pc /\ idx' = first.idx /\ summary' = summary
               ELSE /\ pc' = IF c.rethrow THEN "thrown" ELSE "returned"
                    /\ idx' = 0
                    /\ summary' = c.summary
          /\ CountFault(out)
  /\ UNCHANGED <<zipBuffer, mode, plantIdMapping, settingsArgs, rerun, before, firstSummary>>
  /\ UNCHANGED interleaving
  /\ UNCHANGED scheduling

restoreLocations ==
  /\ pc = "locations"
  /\ LET loc == Validated(zipBuffer).locations[idx]
     IN \E out \in {"ok"} \cup
                   (IF loc.isDefault THEN {}
                    ELSE Throwing({"getAllLocations", "upsertLocationByName"})) :
          Apply(restoreLocation(db, summary, plantIdMapping, loc, out), "locations", out)
  /\ UNCHANGED <<settingsArgs, interleaving>>

PlantThrows(d, m, plant) ==
  IF m = "merge"
    THEN {"findPlantByDetails"} \cup
         (IF Len(findPlantByDetails(d, plant.name, plant.species, plant.location)) > 0
            THEN {"updatePlant", "updatePlant-undefined"} ELSE {"createPlant"})
    ELSE {"createPlant"}

restorePlants ==
  /\ pc = "plants"
  /\ LET plant == Validated(zipBuffer).plants[idx]
         imageFiles == extractZipContents(zipBuffer).imageFiles
     IN \E out \in {"ok"} \cup Throwing(PlantThrows(db, mode, plant)) :
          Apply(restorePlant(db, summary, plantIdMapping, mode, imageFiles, plant, out),
                "plants", out)
  /\ UNCHANGED <<settingsArgs, interleaving>>

restoreWateringHistory ==
  /\ pc = "watering"
  /\ LET entry == Validated(zipBuffer).wateringHistory[idx]
     IN \E out \in {"ok"} \cup
                   (IF IsFalsyId(MapGet(plantIdMapping, entry.plantId)) THEN {}
                    ELSE Throwing({"createWateringHistory"})) :
          Apply(restoreWateringEntry(db, summary, plantIdMapping, entry, out), "watering", out)
  /\ UNCHANGED <<settingsArgs, interleaving>>

restoreSettings ==
  /\ pc = "settings"
  /\ LET settings == Validated(zipBuffer).notificationSettings[idx]
     IN /\ \E out \in {"ok"} \cup Throwing({"updateNotificationSettings"}) :
             Apply(restoreNotificationSettings(db, summary, plantIdMapping, settings, out),
                   "settings", out)
        /\ settingsArgs' = settingsArgs \cup {SafeSettings(settings)}
  /\ UNCHANGED interleaving

Next ==
  \/ importFromZipBuffer
  \/ importAgain
  \/ deleteStep
  \/ restoreLocations
  \/ restorePlants
  \/ restoreWateringHistory
  \/ restoreSettings

Spec == Init /\ [][Next]_vars

NextDetails ==
  \/ importFromZipBufferDetails
  \/ importAgain
  \/ deleteStep
  \/ restoreLocations
  \/ restorePlants
  \/ restoreWateringHistory
  \/ restoreSettings

SpecDetails == Init /\ [][NextDetails]_vars

\* ---------------------------------------------- two interleaved import calls
\* Two importFromZipBuffer calls on one ImportService and one account.  The
\* running call's locals are the variables pc .. calls; the other call's are
\* kept in `other` while it is suspended at an await.
Locals ==
  [pc |-> pc, idx |-> idx, zipBuffer |-> zipBuffer, mode |-> mode,
   plantIdMapping |-> plantIdMapping, summary |-> summary, calls |-> calls,
   awaited |-> awaited]

\* Faulty variant: the identifier map is a field of the service, shared by
\* the calls.
SharedMap(own, current) == current

\* plantIdMapping is a local of importFromZipBuffer (line 111): a resumed call
\* finds its own map, whatever the other call did meanwhile.
OwnMap(own, current) == own

importInterleaved ==
  /\ pc = "idle"
  /\ \E zip \in InterleavedZipBuffers, m \in Modes : Start(zip, m)
  /\ UNCHANGED <<rerun, firstSummary, interleaving>>

\* The running call is suspended at an await (or has ended) and the other
\* call runs.
yield ==
  /\ pc # "idle"
  /\ other.pc \notin {"returned", "thrown"}
  /\ other' = Locals
  /\ pc' = other.pc
  /\ idx' = other.idx
  /\ zipBuffer' = other.zipBuffer
  /\ mode' = other.mode
  /\ plantIdMapping' = OwnMap(other.plantIdMapping, plantIdMapping)
  /\ summary' = other.summary
  /\ calls' = other.calls
  /\ awaited' = other.awaited
  /\ overlapped' = (overlapped \/ pc \notin {"returned", "thrown"})
  /\ UNCHANGED <<db, settingsArgs, faults, rerun, before, firstSummary>>
  /\ UNCHANGED scheduling

\* Lines 228-232: the awaited findPlantByDetails of a plant record.
lookupPlant ==
  /\ pc = "plants"
  /\ mode = "merge"
  /\ awaited = NoLookup
  /\ LET plant == Validated(zipBuffer).plants[idx]
         imageFiles == extractZipContents(zipBuffer).imageFiles
     IN \E out \in {"ok"} \cup Throwing({"findPlantByDetails"}) :
          IF out = "ok"
            THEN /\ awaited' =
                      <<findPlantByDetails(db, plant.name, plant.species, plant.location)>>
                 /\ UNCHANGED <<db, pc, idx, zipBuffer, mode, plantIdMapping, summary,
                                calls, faults, rerun, before, firstSummary>>
                 /\ UNCHANGED scheduling
            ELSE /\ Apply(restorePlantAfterLookup(db, summary, plantIdMapping, mode,
                                                  imageFiles, plant, out, <<>>),
                          "plants", out)
                 /\ awaited' = NoLookup
  /\ UNCHANGED <<settingsArgs, other, overlapped>>

\* Lines 234-283: the update or the creation that follows the lookup.
storePlant ==
  /\ pc = "plants"
  /\ mode = "replace" \/ awaited # NoLookup
  /\ LET plant == Validated(zipBuffer).plants[idx]
         imageFiles == extractZipContents(zipBuffer).imageFiles
         existingPlant == IF mode = "merge" THEN awaited[1] ELSE <<>>
     IN \E out \in {"ok"} \cup
                   Throwing(IF Len(existingPlant) > 0
                              THEN {"updatePlant", "updatePlant-undefined"}
                              ELSE {"createPlant"}) :
          Apply(restorePlantAfterLookup(db, summary, plantIdMapping, mode, imageFiles,
                                        plant, out, existingPlant),
                "plants", out)
  /\ awaited' = NoLookup
  /\ UNCHANGED <<settingsArgs, other, overlapped>>

\* The archives of InterleavedZipBuffers have neither locations nor a
\* notificationSettings block.
NextInterleaved ==
  \/ importInterleaved
  \/ yield
  \/ deleteStep
  \/ lookupPlant
  \/ storePlant
  \/ restoreWateringHistory

SpecInterleaved == Init /\ [][NextInterleaved]_vars

\* The archives of PlaceZipBuffers have no notificationSettings block.
NextPlaces ==
  \/ importFromZipBufferPlaces
  \/ deleteStep
  \/ restoreLocations
  \/ restorePlants
  \/ restoreWateringHistory

SpecPlaces == Init /\ [][NextPlaces]_vars

\* ------------------------------------------------------------ properties
Manifest == zipBuffer.backupData

Done == pc \in {"returned", "thrown"}

\* A structural failure, read off the ZIP buffer itself: the container cannot
\* be opened, backup.json is absent or not JSON, or exportInfo is invalid.
StructuralFailure(zip) ==
  \/ zip.container # "ok"
  \/ zip.backupData.exportInfo # GoodExportInfo

MissingFieldPlants(data) == {i \in DOMAIN data.plants : DOMAIN data.plants[i] # PlantKeys}

\* The archive was extracted and passed validation, read off the ZIP buffer.
PassedValidation(zip) ==
  /\ ~StructuralFailure(zip)
  /\ MissingFieldPlants(zip.backupData) = {}

CreatedHere(live, old) == {x \in live : \A y \in old : y.id # x.id}

RestorationOps ==
  {"upsertLocationByName", "createPlant", "updatePlant", "createWateringHistory",
   "updateNotificationSettings"}

IsFailedRestoreCall(c) == ~c.ok /\ c.op # "deleteAllUserData"

IsFailureWarning(w) ==
  w \in {"Failed to restore location", "Failed to restore plant",
         "Failed to restore watering history entry",
         "Failed to restore notification settings"}

\* C1: an archive of N valid plant records and one plant record with a missing
\* required field is imported without an error, with plantsCreated = N,
\* plantsSkipped = 1 and a non-empty warnings list.
C1_FailureIsolation ==
  ( /\ Done
    /\ ~rerun
    /\ faults = 0
    /\ before.plants = {}
    /\ zipBuffer.container = "ok"
    /\ Manifest.exportInfo = GoodExportInfo
    /\ Cardinality(MissingFieldPlants(Manifest)) = 1 )
  => ( /\ pc = "returned"
       /\ summary.plantsCreated = Len(Manifest.plants) - 1
       /\ summary.plantsSkipped = 1
       /\ Len(summary.warnings) > 0 )

\* C2: a structural failure makes the import fail before any mutation: the
\* call throws, no storage call has been made and the live dataset is as it
\* was, in both modes.
C2_StructuralFailureBeforeMutation ==
  (pc # "idle" /\ StructuralFailure(zipBuffer))
  => (pc = "thrown" /\ calls = <<>> /\ db = before)

C2_Witness ==
  /\ pc = "thrown"
  /\ mode = "replace"
  /\ zipBuffer.container = "ok"
  /\ Manifest.exportInfo = BadExportInfo
  /\ Len(Manifest.plants) > 0
  /\ db.plants # {}

\* C3: the second merge import of the same archive, every storage call
\* succeeding, creates nothing: its three created counters are 0 and the live
\* sets of locations, plants and watering events do not grow.
C3_MergeIdempotent ==
  (rerun /\ pc = "returned" /\ mode = "merge")
  => ( /\ summary.locationsCreated = 0
       /\ summary.plantsCreated = 0
       /\ summary.wateringHistoryCreated = 0
       /\ Cardinality(db.locations) = Cardinality(before.locations)
       /\ Cardinality(db.plants) = Cardinality(before.plants)
       /\ Cardinality(db.wateringHistory) = Cardinality(before.wateringHistory) )

\* C4: after a replace import has returned, every live plant, location and
\* watering event corresponds to a record of the archive and none of them
\* existed before the import.
C4_ReplaceCompleteness ==
  (pc = "returned" /\ mode = "replace")
  => ( /\ \A p \in db.plants :
            /\ \A q \in before.plants : q.id # p.id
            /\ \E i \in DOMAIN Manifest.plants :
                 LET r == Manifest.plants[i]
                 IN /\ r.name = p.name /\ r.species = p.species
                    /\ r.location = p.location
                    /\ r.wateringFrequency = p.wateringFrequency
                    /\ r.notes = p.notes
       /\ \A l \in db.locations :
            /\ \A q \in before.locations : q.id # l.id
            /\ \E i \in DOMAIN Manifest.locations : Manifest.locations[i].name = l.name
       /\ \A w \in db.wateringHistory :
            /\ \A q \in before.wateringHistory : q.id # w.id
            /\ \E i \in DOMAIN Manifest.wateringHistory :
                 Manifest.wateringHistory[i].wateredAt = w.wateredAt )

C4_Witness ==
  /\ pc = "returned"
  /\ mode = "replace"
  /\ before.plants # {}
  /\ before.locations # {}
  /\ before.wateringHistory # {}
  /\ db.plants # {}
  /\ db.wateringHistory # {}

\* C5: every watering event an import creates is created under the id of a
\* plant that is in the live dataset at the moment of the call.
C5_ForeignKeyConsistency ==
  [][\A w \in db'.wateringHistory \ db.wateringHistory :
       \E p \in db.plants : p.id = w.plantId]_vars

C5_Witness ==
  /\ pc = "returned"
  /\ summary.wateringHistoryCreated > 0
  /\ CreatedHere(db.wateringHistory, before.wateringHistory) # {}

\* C6: a watering record whose archive plantId has no entry in the identifier
\* map is not persisted: the step changes no stored data, makes no storage
\* call, appends exactly one warning and leaves wateringHistoryCreated alone.
C6_OrphanWateringSkipped ==
  [][(pc = "watering"
      /\ Manifest.wateringHistory[idx].plantId \notin DOMAIN plantIdMapping)
     => ( /\ db' = db
          /\ calls' = calls
          /\ summary'.warnings = Append(summary.warnings, "Skipping watering history entry")
          /\ summary'.wateringHistoryCreated = summary.wateringHistoryCreated )]_vars

C6_Witness ==
  /\ pc = "returned"
  /\ summary.warnings = <<"Skipping watering history entry">>
  /\ summary.plantsCreated > 0
  /\ db.wateringHistory = before.wateringHistory

\* The preferences argument as a function of the non-credential fields of the
\* archive's notificationSettings block alone.
NonSecretView(raw) ==
  [enabled |-> raw.enabled,
   pushoverEnabled |-> ("pushoverEnabled" \in DOMAIN raw) /\ raw.pushoverEnabled,
   emailEnabled |-> ("emailEnabled" \in DOMAIN raw) /\ raw.emailEnabled,
   emailAddress |-> IF "emailAddress" \in DOMAIN raw THEN raw.emailAddress ELSE UNDEFINED]

\* C7: the argument of updateNotificationSettings holds only enabled,
\* pushoverEnabled, emailEnabled and emailAddress, is determined by the
\* non-credential fields of the archive, and the live credentials stay as
\* they were.
C7_SecretNonLeakage ==
  /\ \A a \in settingsArgs :
       /\ DOMAIN a = {"enabled", "pushoverEnabled", "emailEnabled", "emailAddress"}
       /\ a = NonSecretView(Manifest.notificationSettings[1])
  /\ \A k \in CredentialKeys : db.notificationSettings[k] = before.notificationSettings[k]

C7_Witness ==
  /\ pc = "returned"
  /\ summary.notificationSettingsUpdated
  /\ settingsArgs # {}
  /\ CredentialKeys \subseteq DOMAIN Manifest.notificationSettings[1]

\* The scenario of C8: one location, one plant placed in it, one watering
\* event of that plant, merged into an empty account without storage failure.
C8_Scenario ==
  /\ pc = "returned"
  /\ ~rerun
  /\ mode = "merge"
  /\ faults = 0
  /\ before.locations = {} /\ before.plants = {} /\ before.wateringHistory = {}
  /\ Len(Manifest.locations) = 1
  /\ Len(Manifest.plants) = 1
  /\ Len(Manifest.wateringHistory) = 1
  /\ Manifest.plants[1].location = Manifest.locations[1].name
  /\ Manifest.wateringHistory[1].plantId = Manifest.plants[1].id

C8_Outcome ==
  /\ summary.locationsCreated = 1
  /\ summary.plantsCreated = 1
  /\ summary.wateringHistoryCreated = 1
  /\ Cardinality(db.plants) = 1
  /\ Cardinality(db.wateringHistory) = 1
  /\ \A p \in db.plants : \A w \in db.wateringHistory : w.plantId = p.id

\* C8 as stated: the scenario yields locationsCreated = 1, plantsCreated = 1,
\* wateringHistoryCreated = 1 and the live watering event carries the live id
\* of the created plant.
C8_RemappingAnyLocation == C8_Scenario => C8_Outcome

\* C8 amended: the same, for an archive whose location is user-created
\* (isDefault = false).
C8_RemappingUserLocation ==
  (C8_Scenario /\ ~Manifest.locations[1].isDefault) => C8_Outcome

C8_Witness ==
  /\ C8_Scenario
  /\ ~Manifest.locations[1].isDefault
  /\ \E w \in db.wateringHistory : w.plantId # Manifest.plants[1].id

C10_ThrownBeforeRestoration ==
  (pc = "thrown")
  => ( /\ \A i \in DOMAIN calls : calls[i].op \notin RestorationOps
       /\ db.locations \subseteq before.locations
       /\ db.plants \subseteq before.plants
       /\ db.wateringHistory \subseteq before.wateringHistory
       /\ db.notificationSettings = before.notificationSettings
       /\ plantIdMapping = EmptyMapping )

C10_Witness ==
  /\ pc = "thrown"
  /\ PassedValidation(zipBuffer)
  /\ Len(Manifest.plants) > 0
  /\ Len(Manifest.locations) > 0
  /\ db.wateringHistory # before.wateringHistory

\* C11: in every summary an import returns, plantsCreated + plantsUpdated +
\* plantsSkipped equals the number of plant records of the archive, in both
\* modes and whatever the storage calls did (success, failure, not found).
C11_PlantAccounting ==
  (pc = "returned" /\ PassedValidation(zipBuffer))
  => summary.plantsCreated + summary.plantsUpdated + summary.plantsSkipped
       = Len(Manifest.plants)

\* The live plant is the one an archive plant record names: same name, species
\* and location.
MatchesPlantRecord(p) ==
  \E i \in DOMAIN Manifest.plants :
     LET r == Manifest.plants[i]
     IN /\ {"name", "species", "location"} \subseteq DOMAIN r
        /\ r.name = p.name /\ r.species = p.species /\ r.location = p.location

MatchesLocationRecord(l) ==
  \E i \in DOMAIN Manifest.locations :
     ToLower(Manifest.locations[i].name) = ToLower(l.name)

\* C12: a merge-mode import never deletes live data: deleteAllUserData is not
\* called, and every live plant, location and watering event that matches no
\* record of the archive is in the live dataset unchanged, at every point of
\* the import.
C12_MergeNeverDeletes ==
  (mode = "merge" /\ pc # "idle")
  => ( /\ \A i \in DOMAIN calls : calls[i].op # "deleteAllUserData"
       /\ \A p \in before.plants :
             /\ \E q \in db.plants : q.id = p.id
             /\ ~MatchesPlantRecord(p) => p \in db.plants
       /\ \A l \in before.locations : ~MatchesLocationRecord(l) => l \in db.locations
       /\ before.wateringHistory \subseteq db.wateringHistory )

C12_Witness ==
  /\ mode = "merge"
  /\ pc = "returned"
  /\ \E p \in before.plants : ~MatchesPlantRecord(p)
  /\ \E l \in before.locations : ~MatchesLocationRecord(l)
  /\ before.wateringHistory # {}
  /\ summary.plantsCreated > 0
  /\ summary.locationsCreated + summary.wateringHistoryCreated > 0

PlantOps == {"findPlantByDetails", "updatePlant", "createPlant"}

\* The step being taken ends in a storage call of restorePlants that threw.
PlantCallThrows ==
  /\ pc = "plants"
  /\ Len(calls') > Len(calls)
  /\ calls'[Len(calls')].op \in PlantOps
  /\ ~calls'[Len(calls')].ok

\* C13: a storage call that throws for one plant record is non-fatal:
\* plantsSkipped grows by exactly one and exactly one warning is appended,
\* the live dataset keeps what was restored before (nothing is rolled back),
\* and the import goes on with the next plant record or the next step.
C13_PlantFailureNonFatal ==
  [][ PlantCallThrows
      => ( /\ summary' = [summary EXCEPT
                            !.plantsSkipped = @ + 1,
                            !.warnings = Append(@, "Failed to restore plant")]
           /\ db' = db
           /\ plantIdMapping' = plantIdMapping
           /\ IF idx < Len(Manifest.plants)
                THEN pc' = "plants" /\ idx' = idx + 1
                ELSE pc' = IF Len(Manifest.wateringHistory) > 0 THEN "watering"
                           ELSE IF Len(Manifest.notificationSettings) > 0 THEN "settings"
                           ELSE "returned" ) ]_vars

C13_Witness ==
  /\ pc = "returned"
  /\ summary.plantsSkipped = 1
  /\ summary.wateringHistoryCreated = 1
  /\ \E i, j \in DOMAIN calls :
        /\ i < j
        /\ calls[i].op = "createPlant" /\ calls[i].ok
        /\ calls[j].op \in PlantOps /\ ~calls[j].ok
        /\ \E p \in db.plants : p.id = calls[i].id

DeletionCalls == {i \in DOMAIN calls : calls[i].op = "deleteAllUserData"}

\* C14: in replace mode deleteAllUserData is requested exactly once, as the
\* first storage call, and it has completed before any restoration call is
\* made; no deletion is requested once restoration has started.
C14_DeleteOnceBeforeRestoring ==
  (mode = "replace" /\ PassedValidation(zipBuffer) /\ pc \notin {"idle", "try"})
  => ( /\ DeletionCalls = {1}
       /\ Len(calls) > 1 => calls[1].ok )

C14_Witness ==
  /\ mode = "replace"
  /\ pc = "returned"
  /\ before.plants # {}
  /\ \E i \in DOMAIN calls : i > 1 /\ calls[i].op = "upsertLocationByName"
  /\ \E i \in DOMAIN calls : i > 1 /\ calls[i].op = "createPlant"
  /\ \E i \in DOMAIN calls : i > 1 /\ calls[i].op = "createWateringHistory"

\* The restoration step a storage call belongs to (0: the deletion).
StepOfCall(c) ==
  IF c.op \in {"getAllLocations", "upsertLocationByName"} THEN 1
  ELSE IF c.op \in PlantOps THEN 2
  ELSE IF c.op = "createWateringHistory" THEN 3
  ELSE IF c.op = "updateNotificationSettings" THEN 4
  ELSE 0

StepOfPc(p) ==
  IF p = "locations" THEN 1 ELSE IF p = "plants" THEN 2
  ELSE IF p = "watering" THEN 3 ELSE IF p = "settings" THEN 4 ELSE 5

RecordsOfPc(p) ==
  IF p = "locations" THEN Manifest.locations
  ELSE IF p = "plants" THEN Manifest.plants
  ELSE IF p = "watering" THEN Manifest.wateringHistory
  ELSE Manifest.notificationSettings

\* C15: restoration runs in dependency order: locations, plants, watering
\* events, notification preferences.  While records of a step remain the
\* import stays in that step and takes the next record; it only ever moves on
\* to a later step; and the storage calls are made in the order of the steps.
C15_DependencyOrder ==
  [][ /\ ( pc \in {"locations", "plants", "watering", "settings"} /\ pc' # "thrown" )
         => IF idx < Len(RecordsOfPc(pc))
              THEN pc' = pc /\ idx' = idx + 1
              ELSE /\ StepOfPc(pc') > StepOfPc(pc)
                   /\ \A k \in (StepOfPc(pc) + 1)..(StepOfPc(pc') - 1) :
                         \A p \in {"locations", "plants", "watering", "settings"} :
                            StepOfPc(p) = k => Len(RecordsOfPc(p)) = 0
      /\ \A i, j \in DOMAIN calls' :
            i < j => StepOfCall(calls'[i]) <= StepOfCall(calls'[j]) ]_vars

C15_Witness ==
  /\ pc = "returned"
  /\ Len(Manifest.plants) = MaxPlants
  /\ \A k \in 1..4 : \E i \in DOMAIN calls : StepOfCall(calls[i]) = k /\ calls[i].ok

AfterPlantsStep == pc \in {"watering", "settings", "returned"}

\* The plant record of call c was matched to a live plant or created as one.
MatchedOrCreated(c) ==
  \/ c.op = "findPlantByDetails" /\ c.ok /\ c.id # 0
  \/ c.op = "createPlant" /\ c.ok

\* C16: after the plants step, the archive-local id of every plant record
\* that was matched to an existing plant or created as a new plant is in the
\* plant identifier map, mapped to that live plant's id.
C16_EveryRestoredPlantMapped ==
  AfterPlantsStep
  => \A i \in DOMAIN calls :
        MatchedOrCreated(calls[i])
        => /\ calls[i].archiveId \in DOMAIN plantIdMapping
           /\ plantIdMapping[calls[i].archiveId] = calls[i].id

\* The plant record of call c was created, or matched and updated, with success.
UpdatedOrCreated(c) == c.op \in {"updatePlant", "createPlant"} /\ c.ok /\ c.id # 0

\* C16, amended: after the plants step, the archive-local id of every plant
\* record that was created as a new plant, or matched to an existing plant
\* and updated with success, is in the plant identifier map, mapped to the
\* live id of a plant created or updated from a record with that id; a record
\* whose match was followed by a failed update is not mapped.
C16_EveryUpdatedOrCreatedPlantMapped ==
  AfterPlantsStep
  => /\ \A i \in DOMAIN calls :
           UpdatedOrCreated(calls[i])
           => /\ calls[i].archiveId \in DOMAIN plantIdMapping
              /\ \E j \in DOMAIN calls :
                    /\ UpdatedOrCreated(calls[j])
                    /\ calls[j].archiveId = calls[i].archiveId
                    /\ plantIdMapping[calls[i].archiveId] = calls[j].id
     /\ \A k \in DOMAIN plantIdMapping :
           \E i \in DOMAIN calls : UpdatedOrCreated(calls[i]) /\ calls[i].archiveId = k

C16_Witness ==
  /\ pc = "returned"
  /\ \E i, j, k \in DOMAIN calls :
        /\ calls[i].op = "updatePlant" /\ UpdatedOrCreated(calls[i])
        /\ calls[j].op = "createPlant" /\ UpdatedOrCreated(calls[j])
        /\ calls[i].archiveId # calls[j].archiveId
        /\ plantIdMapping[calls[i].archiveId] = calls[i].id
        /\ plantIdMapping[calls[j].archiveId] = calls[j].id
        /\ calls[k].op = "createWateringHistory" /\ calls[k].ok

\* The step being taken updates the live plant an archive record matched.
MatchedPlantUpdated ==
  /\ pc = "plants"
  /\ mode = "merge"
  /\ Len(calls') > Len(calls)
  /\ calls'[Len(calls')].op = "updatePlant"
  /\ calls'[Len(calls')].ok
  /\ calls'[Len(calls')].id # 0

\* The live plant with the given id is changed by `changes` and by nothing
\* else, no plant is added or removed, and plantsUpdated grows by one.
OnlyChanged(id, changes) ==
  /\ \E p \in db.plants :
        /\ p.id = id
        /\ db'.plants = (db.plants \ {p}) \cup {Merge(p, changes)}
  /\ summary' = [summary EXCEPT !.plantsUpdated = @ + 1]

\* C17: in merge mode a plant record that matches a live plant creates no
\* plant, keeps the live id, changes only the watering frequency and the notes
\* of the matched plant (name, species, location, image reference and
\* last-watered stay as they were) and increments plantsUpdated by one.
C17_MatchUpdatesFrequencyAndNotes ==
  [][ MatchedPlantUpdated
      => LET plant == Validated(zipBuffer).plants[idx]
         IN OnlyChanged(calls'[Len(calls')].id,
                        [wateringFrequency |-> plant.wateringFrequency,
                         notes |-> plant.notes]) ]_vars

\* C17, amended: as C17, except that last-watered is changed too, to the date
\* read from the record, whenever the record's lastWatered is a non-empty
\* string; it stays as it was when the record's lastWatered is null or empty.
C17_MatchUpdatesLastWateredToo ==
  [][ MatchedPlantUpdated
      => LET plant == Validated(zipBuffer).plants[idx]
             raw == Manifest.plants[idx].lastWatered
         IN OnlyChanged(calls'[Len(calls')].id,
                        IF raw \in {NULL, ""}
                          THEN [wateringFrequency |-> plant.wateringFrequency,
                                notes |-> plant.notes]
                          ELSE [wateringFrequency |-> plant.wateringFrequency,
                                notes |-> plant.notes,
                                lastWatered |-> NewDate(raw)]) ]_vars

C17_Witness ==
  /\ pc = "returned"
  /\ mode = "merge"
  /\ ~rerun
  /\ summary.plantsUpdated = 2
  /\ summary.plantsCreated = 0
  /\ Manifest.plants[1].lastWatered = "2024-01-01"
  /\ Manifest.plants[2].lastWatered = NULL
  /\ \E p \in before.plants :
        db.plants = {[p EXCEPT !.wateringFrequency = 7, !.notes = "from backup",
                               !.lastWatered = "2024-01-01"]}

\* The lastWatered string of an archive plant record cannot be read as a date.
UnparseableDate(raw) == raw \in {NULL, ""} \/ NewDate(raw) = InvalidDate

\* The step being taken creates a plant from the record at idx.
PlantCreated ==
  /\ pc = "plants"
  /\ Len(calls') > Len(calls)
  /\ calls'[Len(calls')].op = "createPlant"
  /\ calls'[Len(calls')].ok

\* C18: a plant record whose lastWatered cannot be parsed (null, empty, or a
\* string that is not a date) is created with lastWatered set to the current
\* time; no plant is created with an invalid date.
C18_UnparseableLastWateredIsNow ==
  [][ PlantCreated
      => \E p \in db'.plants :
            /\ p.id = calls'[Len(calls')].id
            /\ p.lastWatered # InvalidDate
            /\ UnparseableDate(Manifest.plants[idx].lastWatered) => p.lastWatered = Now ]_vars

\* The step being taken processes a watering record whose wateredAt cannot be
\* read as a date.
UnparseableWateringProcessed ==
  /\ pc = "watering"
  /\ NewDate(Manifest.wateringHistory[idx].wateredAt) = InvalidDate
  /\ pc' # pc \/ idx' # idx

\* C19: a watering record whose wateredAt cannot be parsed as a date is
\* skipped with a warning: createWateringHistory is not called for it,
\* wateringHistoryCreated is not incremented, and the import goes on with the
\* other records.
C19_UnparseableWateredAtSkipped ==
  [][ UnparseableWateringProcessed
      => ( /\ calls' = calls
           /\ db'.wateringHistory = db.wateringHistory
           /\ summary'.wateringHistoryCreated = summary.wateringHistoryCreated
           /\ Len(summary'.warnings) = Len(summary.warnings) + 1
           /\ pc' # "thrown" ) ]_vars

\* The record at idx declares an image and the archive holds an asset named
\* plant-<its id>-*.
HasAsset(i) ==
  /\ Truthy(Manifest.plants[i].imageUrl)
  /\ \E f \in zipBuffer.images : f.plant = Manifest.plants[i].id

\* C20: for every restored plant whose record declares an image and whose
\* asset plant-<archive id>-* is in the archive, the asset is persisted, its
\* reference is attached to the live plant and imagesRestored is incremented;
\* asset restoration raises nothing and the plant is counted as restored.
C20_AssetRestored ==
  [][ (PlantCreated /\ HasAsset(idx))
      => ( /\ \E p \in db'.plants :
                 p.id = calls'[Len(calls')].id /\ Truthy(p.imageUrl)
           /\ summary'.imagesRestored = summary.imagesRestored + 1
           /\ summary'.plantsCreated = summary.plantsCreated + 1
           /\ summary'.warnings = summary.warnings
           /\ pc' # "thrown" ) ]_vars

\* A live location has the name of the record, whatever the letter case.
NamedLikeLiveLocation(loc) ==
  \E existing \in db.locations : ToLower(existing.name) = ToLower(loc.name)

\* C21: in merge mode, a location record named, case-insensitively, like a
\* location of the live dataset reuses that location: no location is created
\* and locationsCreated is left as it is; locationsCreated is incremented
\* only for a record for which a live location was created.
C21_LocationMatching ==
  [][ (pc = "locations" /\ mode = "merge")
      => ( /\ NamedLikeLiveLocation(Manifest.locations[idx])
              => ( /\ db'.locations = db.locations
                   /\ summary'.locationsCreated = summary.locationsCreated )
           /\ summary'.locationsCreated - summary.locationsCreated
                = Cardinality(db'.locations) - Cardinality(db.locations) ) ]_vars

\* C22: the plant identifier map is write-once per archive-local id within
\* one import call: an entry, once written, is never overwritten with another
\* live id, also when two plant records of the archive carry the same id.
C22_MapWriteOnce ==
  [][ (pc \in {"plants", "watering", "settings"})
      => \A k \in DOMAIN plantIdMapping :
            k \in DOMAIN plantIdMapping' /\ plantIdMapping'[k] = plantIdMapping[k] ]_vars

SettingsCalls == {i \in DOMAIN calls : calls[i].op = "updateNotificationSettings"}

\* C24: notificationSettingsUpdated is true in a returned summary exactly
\* when the archive holds a notificationSettings block and
\* updateNotificationSettings succeeded.  When the call fails the import still
\* returns, with the flag false, one warning added and the counts of the
\* earlier steps as they were; without the block no preferences call is made.
C24_PreferencesStep ==
  [][ /\ (pc = "settings")
         => ( /\ pc' = "returned"
              /\ Len(calls') = Len(calls) + 1
              /\ calls'[Len(calls')].op = "updateNotificationSettings"
              /\ summary' = IF calls'[Len(calls')].ok
                              THEN [summary EXCEPT !.notificationSettingsUpdated = TRUE]
                              ELSE Warn(summary, "Failed to restore notification settings") )
      /\ (pc' = "returned")
         => ( /\ summary'.notificationSettingsUpdated
                 <=> ( /\ Len(zipBuffer'.backupData.notificationSettings) > 0
                       /\ \E i \in DOMAIN calls' :
                             calls'[i].op = "updateNotificationSettings" /\ calls'[i].ok )
              /\ Len(zipBuffer'.backupData.notificationSettings) = 0
                 => \A i \in DOMAIN calls' : calls'[i].op # "updateNotificationSettings" )
    ]_vars

C24_Witness ==
  /\ pc = "returned"
  /\ \E i \in SettingsCalls : ~calls[i].ok
  /\ ~summary.notificationSettingsUpdated
  /\ summary.plantsCreated > 0
  /\ summary.wateringHistoryCreated > 0
  /\ summary.warnings = <<"Failed to restore notification settings">>

\* The calls of `op` that returned an entity.
Effective(op) == {i \in DOMAIN calls : calls[i].op = op /\ calls[i].ok /\ calls[i].id # 0}

\* C26: in every returned summary plantsCreated is the number of plants the
\* call added to the live dataset, plantsUpdated the number of updatePlant
\* calls that updated a plant, and wateringHistoryCreated the number of
\* watering events the call added; in replace mode plantsUpdated is 0 and
\* findPlantByDetails is never called.
C26_CountersMatchEffects ==
  (pc = "returned")
  => ( /\ summary.plantsCreated = Cardinality(CreatedHere(db.plants, before.plants))
       /\ summary.plantsUpdated = Cardinality(Effective("updatePlant"))
       /\ summary.wateringHistoryCreated
            = Cardinality(CreatedHere(db.wateringHistory, before.wateringHistory))
       /\ mode = "replace"
          => ( /\ summary.plantsUpdated = 0
               /\ \A i \in DOMAIN calls : calls[i].op # "findPlantByDetails" ) )

C26_Witness ==
  /\ pc = "returned"
  /\ mode = "merge"
  /\ faults > 0
  /\ summary.plantsCreated = 1
  /\ summary.plantsUpdated = 1
  /\ summary.wateringHistoryCreated = 0
  /\ \E i \in DOMAIN calls : calls[i].op = "createWateringHistory" /\ ~calls[i].ok

\* Two archive plant records have equal name, species and location.
SamePlantKey(r1, r2) ==
  /\ ToLower(r1.name) = ToLower(r2.name)
  /\ ToLower(r1.species) = ToLower(r2.species)
  /\ ToLower(r1.location) = ToLower(r2.location)

\* C27: in merge mode two plant records of one archive that carry different
\* archive-local ids are never mapped to the same live plant id, also when
\* they have equal name, species and location.
C27_DistinctPlantsDistinctLiveIds ==
  (mode = "merge")
  => \A k1, k2 \in DOMAIN plantIdMapping :
        k1 # k2 => plantIdMapping[k1] # plantIdMapping[k2]

\* C27, amended: in merge mode two plant records of one archive that carry
\* different archive-local ids are mapped to the same live plant id only when
\* they have equal name, species and location.
C27_SameLiveIdOnlyForSameKey ==
  (mode = "merge")
  => \A k1, k2 \in DOMAIN plantIdMapping :
        (k1 # k2 /\ plantIdMapping[k1] = plantIdMapping[k2])
        => \E i, j \in DOMAIN Manifest.plants :
              /\ Manifest.plants[i].id = k1
              /\ Manifest.plants[j].id = k2
              /\ SamePlantKey(Manifest.plants[i], Manifest.plants[j])

C27_Witness ==
  /\ mode = "merge"
  /\ pc = "returned"
  /\ \E k1, k2 \in DOMAIN plantIdMapping : plantIdMapping[k1] # plantIdMapping[k2]
  /\ summary.wateringHistoryCreated > 0

\* C28: after an import returns, every plant the import created names a
\* location that is among the user's live locations; a plant record whose
\* location was not restored (no such location record, a record marked
\* isDefault, or one that failed to restore) is not created.
C28_PlantLocationExists ==
  (pc = "returned")
  => \A p \in CreatedHere(db.plants, before.plants) :
        \E l \in db.locations : ToLower(l.name) = ToLower(p.location)

\* The two import calls: the running one and the suspended one.
BothCalls == {Locals, other}

PlantIdsOf(zip) == {zip.backupData.plants[i].id : i \in DOMAIN zip.backupData.plants}

OkCalls(c, op) == {i \in DOMAIN c.calls : c.calls[i].op = op /\ c.calls[i].ok}

\* C23: the identifier map and the summary are scoped to one import call.
\* When two calls run interleaved on one ImportService, every watering event
\* a call creates is given a live plant id that the same call got from its own
\* updatePlant or createPlant, the map of a call holds only ids of its own
\* archive, and the counters of a call count its own calls only.
C23_CallScopedMapAndSummary ==
  \A c \in BothCalls :
     /\ \A i \in OkCalls(c, "createWateringHistory") :
           \E j \in 1..(i - 1) :
              /\ c.calls[j].op \in {"updatePlant", "createPlant"}
              /\ c.calls[j].ok
              /\ c.calls[j].id = c.calls[i].id
     /\ DOMAIN c.plantIdMapping \subseteq PlantIdsOf(c.zipBuffer)
     /\ c.summary.plantsCreated = Cardinality(OkCalls(c, "createPlant"))
     /\ c.summary.wateringHistoryCreated = Cardinality(OkCalls(c, "createWateringHistory"))
     /\ c.summary.plantsCreated + c.summary.plantsUpdated + c.summary.plantsSkipped
          <= Len(c.zipBuffer.backupData.plants)
     /\ c.summary.wateringHistoryCreated <= Len(c.zipBuffer.backupData.wateringHistory)

C23_Witness ==
  /\ overlapped
  /\ pc = "returned"
  /\ other.pc = "returned"
  /\ PlantIdsOf(zipBuffer) # PlantIdsOf(other.zipBuffer)
  /\ Len(summary.warnings) = 1
  /\ summary.wateringHistoryCreated = 0
  /\ summary.plantsCreated = 1
  /\ other.summary.wateringHistoryCreated = 1
  /\ other.summary.plantsCreated = 1

\* Two live plants have equal name, species and location.
TwinPlants ==
  \E p, q \in db.plants : p.id # q.id /\ SamePlantKey(p, q)

SameArchiveMerged ==
  /\ mode = "merge"
  /\ other.mode = "merge"
  /\ pc # "idle"
  /\ other.pc # "idle"
  /\ zipBuffer = other.zipBuffer

\* C25: two merge-mode imports of the same archive for the same account whose
\* storage calls interleave create each archive plant at most once: no two
\* live plants with the same name, species and location result.
C25_InterleavedCreateOnce == SameArchiveMerged => ~TwinPlants

\* C25, amended: two merge-mode imports of the same archive for the same
\* account create each archive plant at most once when neither call is
\* suspended in the middle of its import, i.e. when the caller runs them one
\* after the other.
C25_SerializedCreateOnce == (SameArchiveMerged /\ ~overlapped) => ~TwinPlants

C25_Witness ==
  /\ SameArchiveMerged
  /\ ~overlapped
  /\ pc = "returned"
  /\ other.pc = "returned"
  /\ other.summary.plantsCreated = 1
  /\ summary.plantsCreated = 0
  /\ summary.plantsUpdated = 1

\* ================================================================ scheduler
\* src/server/scheduler.ts.  An invocation of checkPlantsTask runs its two
\* guards in the caller's turn and is then suspended at the awaits of its try
\* block; it is resumed in a later turn.  Runs are followed in which
\* stopScheduler is not called.

\* Lines 21-27.  Only the calendar day of lastCheckDate is ever read.
hasCheckedToday(t) ==
  IF lastCheckDate = <<>> THEN FALSE
  ELSE getDateString(t) = lastCheckDate[1]

\* Lines 29-35.
isCheckTime(t) ==
  /\ getHours(t) = DEFAULT_CHECK_HOUR
  /\ getMinutes(t) >= DEFAULT_CHECK_MINUTE
  /\ getMinutes(t) < DEFAULT_CHECK_MINUTE + CheckWindow

\* Lines 38-52: the synchronous part of an invocation made at time t, up to its
\* first await.
checkPlantsTask(t) ==
  IF hasCheckedToday(t) \/ ~isCheckTime(t)
    THEN UNCHANGED <<inFlight, accepted>>
    ELSE /\ inFlight' = inFlight + 1
         /\ accepted' = accepted \cup {getDateString(t)}

\* Lines 76-87.
startScheduler ==
  /\ starts < MaxStarts
  /\ starts' = starts + 1
  /\ startDay' = IF startDay = <<>> THEN <<getDateString(clock)>> ELSE startDay
  /\ checkPlantsTask(clock)
  /\ IF schedulerInterval = <<>>
       THEN /\ schedulerInterval' = <<clock + IntervalMinutes>>
            /\ timers' = timers + 1
       ELSE UNCHANGED <<schedulerInterval, timers>>
  /\ UNCHANGED <<clock, lastCheckDate, sends, taskFailed>>
  /\ UNCHANGED importing

\* Line 84: the interval timer fires, IntervalMinutes after it last fired.
intervalTick ==
  /\ schedulerInterval # <<>>
  /\ clock < Horizon
  /\ clock' = schedulerInterval[1]
  /\ schedulerInterval' = <<schedulerInterval[1] + IntervalMinutes>>
  /\ checkPlantsTask(schedulerInterval[1])
  /\ UNCHANGED <<lastCheckDate, timers, starts, startDay, sends, taskFailed>>
  /\ UNCHANGED importing

\* Time passes between two firings of the timer.  A further startScheduler call
\* outside the check window changes nothing (the timer exists, and the
\* invocation returns at line 48), so time is followed to the minutes of the
\* check window only.
timePasses ==
  /\ starts > 0
  /\ starts < MaxStarts
  /\ \E t \in (clock + 1)..(schedulerInterval[1] - 1) :
       /\ isCheckTime(t)
       /\ clock' = t
  /\ UNCHANGED <<lastCheckDate, schedulerInterval, timers, starts, startDay, inFlight,
                 accepted, sends, taskFailed>>
  /\ UNCHANGED importing

\* Lines 52-72: a suspended invocation is resumed and runs to its end.  Storage
\* or the sender may throw before line 60 ("throws"), or the summary push of
\* line 64 may throw after it ("summary-throws").
checkPlantsTaskResumed ==
  /\ inFlight > 0
  /\ inFlight' = inFlight - 1
  /\ \E out \in {"ok", "throws", "summary-throws"} :
       /\ IF out = "throws"
            THEN UNCHANGED <<sends, lastCheckDate>>
            ELSE /\ sends' = [sends EXCEPT ![getDateString(clock)] = @ + 1]
                 /\ lastCheckDate' = <<getDateString(clock)>>
       /\ taskFailed' = (taskFailed \/ out # "ok")
  /\ UNCHANGED <<clock, schedulerInterval, timers, starts, startDay, accepted>>
  /\ UNCHANGED importing

\* The module is loaded at any minute of day 0.
InitScheduler ==
  /\ db = EmptyAccount
  /\ ImportIdle
  /\ clock \in 0..(ONE_DAY - 1)
  /\ SchedulerLoaded

NextScheduler ==
  \/ startScheduler
  \/ intervalTick
  \/ timePasses
  \/ checkPlantsTaskResumed

SpecScheduler == InitScheduler /\ [][NextScheduler]_vars

\* C29: the daily check sends its notifications at most once per calendar day,
\* whatever the interleaving of the checkPlantsTask invocations, and at most
\* one interval timer is active.
C29_OncePerDayOneTimer ==
  /\ \A d \in Days : sends[d] <= 1
  /\ timers <= 1

\* C30: while the scheduler stays started and storage and the sender succeed,
\* the daily check is performed on every calendar day, whatever the minute at
\* which startScheduler was called.  Stated at each midnight: the day that ends,
\* if the scheduler was started before it began, is a day on which an
\* invocation of checkPlantsTask passed both guards.
C30_CheckedEveryDay ==
  [][(/\ getDateString(clock') > getDateString(clock)
      /\ startDay # <<>>
      /\ startDay[1] < getDateString(clock)
      /\ ~taskFailed)
     => getDateString(clock) \in accepted]_vars

====
